---------------------------- MODULE Spec2Model ----------------------------
(***************************************************************************)
(* A model of rfc_to_docx.py: the line parser (parse_rfc_content with      *)
(* parse_markdown_table and is_ascii_diagram) and the renderer             *)
(* (convert_rfc_to_docx with add_table and the diagram try/except).        *)
(*                                                                         *)
(* A string is a sequence of characters; a character is a one-character    *)
(* TLA+ string, except for the characters named below.                     *)
(***************************************************************************)
EXTENDS Integers, Sequences, FiniteSets, TLC

VARIABLES lines, i, elements, pc, k, doc, metadata_items

vars == <<lines, i, elements, pc, k, doc, metadata_items>>

-----------------------------------------------------------------------------
(* Characters that are not written as themselves.                          *)
NL == "NL"        \* '\n'
TAB == "TAB"      \* '\t'
BH == "BOX-H"     \* U+2500, light horizontal
BV == "BOX-V"     \* U+2502, light vertical
DH == "BOX-DH"    \* U+2550, double horizontal (in the density set only)
BT == "BACKTICK"  \* U+0060
None == "None"

\* Python's str.strip() whitespace, as far as the model's alphabet has it
Whitespace == {" ", TAB, NL}

Digits == {"0", "1", "2", "3", "4", "5", "6", "7", "8", "9"}

SetMin(S) == CHOOSE x \in S : \A y \in S : x <= y
SetMax(S) == CHOOSE x \in S : \A y \in S : x >= y

\* s[a:] with a 1-based first index
From(s, a) == SubSeq(s, a, Len(s))

\* str.lstrip()
LStrip(s) ==
  LET keep == {j \in 1..Len(s) : s[j] \notin Whitespace}
  IN  IF keep = {} THEN <<>> ELSE From(s, SetMin(keep))

\* str.strip()
Strip(s) ==
  LET keep == {j \in 1..Len(s) : s[j] \notin Whitespace}
  IN  IF keep = {} THEN <<>> ELSE SubSeq(s, SetMin(keep), SetMax(keep))

\* str.startswith(p)
StartsWith(s, p) == Len(s) >= Len(p) /\ SubSeq(s, 1, Len(p)) = p

\* str.split(sep) for a one-character separator
RECURSIVE Split(_, _)
Split(s, sep) ==
  LET at == {j \in 1..Len(s) : s[j] = sep}
  IN  IF at = {} THEN <<s>>
      ELSE <<SubSeq(s, 1, SetMin(at) - 1)>> \o Split(From(s, SetMin(at) + 1), sep)

\* sep.join(parts)
RECURSIVE Join(_, _)
Join(parts, sep) ==
  IF parts = <<>> THEN <<>>
  ELSE IF Len(parts) = 1 THEN parts[1]
  ELSE parts[1] \o sep \o Join(Tail(parts), sep)

\* int(digits)
RECURSIVE ParseInt(_)
ParseInt(ds) ==
  IF ds = <<>> THEN 0
  ELSE 10 * ParseInt(SubSeq(ds, 1, Len(ds) - 1))
       + (CHOOSE d \in 0..9 : <<"0", "1", "2", "3", "4", "5", "6", "7", "8", "9">>[d + 1] = ds[Len(ds)])

\* str(n) for n >= 0
RECURSIVE FormatInt(_)
FormatInt(n) ==
  LET d == <<"0", "1", "2", "3", "4", "5", "6", "7", "8", "9">>[(n % 10) + 1]
  IN  IF n < 10 THEN <<d>> ELSE FormatInt(n \div 10) \o <<d>>

-----------------------------------------------------------------------------
(* is_ascii_diagram                                                        *)

\* re.search(r'[\+\-\|]{3,}', text)
BoxBorderRun(text) ==
  \E j \in 1..(Len(text) - 2) : \A d \in 0..2 : text[j + d] \in {"+", "-", "|"}

\* re.search(r'[...]+', text) over the light box-drawing characters
UnicodeBox(text) == \E j \in 1..Len(text) : text[j] \in {BH, BV}

\* re.search(r'\[.*\].*\[.*\]', text); '.' does not match a newline
BracketPair(text) ==
  \E a \in 1..Len(text) : \E d \in a..Len(text) :
     /\ text[a] = "["
     /\ text[d] = "]"
     /\ \A j \in a..d : text[j] # NL
     /\ \E b \in (a + 1)..(d - 1) : \E c \in (b + 1)..(d - 1) :
           text[b] = "]" /\ text[c] = "["

\* re.search of three or more U+2500 in a row
LongHorizontal(text) ==
  \E j \in 1..(Len(text) - 2) : \A d \in 0..2 : text[j + d] = BH

\* re.search of U+2502, \s*, U+2502
VerticalBars(text) ==
  \E a \in 1..Len(text) : \E b \in (a + 1)..Len(text) :
     /\ text[a] = BV
     /\ text[b] = BV
     /\ \A j \in (a + 1)..(b - 1) : text[j] \in Whitespace

\* the characters of the density check's string literal
DensityChars ==
  {BH, BV, DH, "+", "-", "|", "*", "/", "\\", "<", ">", "^", "v",
   "[", "]", "(", ")", "{", "}"}

diagram_char_count(text) == Cardinality({j \in 1..Len(text) : text[j] \in DensityChars})

\* len(text.replace(' ', '').replace('\n', ''))
total_chars(text) == Cardinality({j \in 1..Len(text) : text[j] \notin {" ", NL}})

\* faulty variant: the threshold compared with >=
DensityAbove_Inclusive(text) ==
  total_chars(text) > 0 /\ 20 * diagram_char_count(text) >= 3 * total_chars(text)

\* diagram_char_count / total_chars > 0.15, in integers (0.15 = 3/20)
DensityAbove(text) ==
  total_chars(text) > 0 /\ 20 * diagram_char_count(text) > 3 * total_chars(text)

is_ascii_diagram(text) ==
  \/ BoxBorderRun(text)
  \/ UnicodeBox(text)
  \/ BracketPair(text)
  \/ LongHorizontal(text)
  \/ VerticalBars(text)
  \/ DensityAbove(text)

-----------------------------------------------------------------------------
(* parse_markdown_table                                                    *)

\* faulty variant: the separator pattern without the colon
IsDashCell_DashOnly(cell) == cell # <<>> /\ \A j \in 1..Len(cell) : cell[j] = "-"

\* re.match(r'^[-:]+$', cell)
IsDashCell(cell) == cell # <<>> /\ \A j \in 1..Len(cell) : cell[j] \in {"-", ":"}

\* [cell.strip() for cell in line.split('|')[1:-1]]
Cells(line) ==
  LET parts == Split(Strip(line), "|")
  IN  [j \in 1..(Len(parts) - 2) |-> Strip(parts[j + 1])]

\* all(re.match(...) for cell in cells): true of an empty list of cells
IsSeparatorRow(cells) == \A j \in 1..Len(cells) : IsDashCell(cells[j])

\* the loop of parse_markdown_table over the lines from position n on
RECURSIVE TableLoop(_, _, _, _)
TableLoop(table_lines, n, headers, rows) ==
  IF n > Len(table_lines) THEN <<headers, rows>>
  ELSE LET line == Strip(table_lines[n])
           cells == Cells(line)
       IN  IF ~StartsWith(line, <<"|">>) THEN TableLoop(table_lines, n + 1, headers, rows)
           ELSE IF IsSeparatorRow(cells) THEN TableLoop(table_lines, n + 1, headers, rows)
           ELSE IF headers = <<>> THEN TableLoop(table_lines, n + 1, cells, rows)
           ELSE TableLoop(table_lines, n + 1, headers, Append(rows, cells))

parse_markdown_table(table_lines) == TableLoop(table_lines, 1, <<>>, <<>>)

-----------------------------------------------------------------------------
(* parse_rfc_content: the tests of one trip round the while loop           *)

HASH1 == <<"#", " ">>
HASH2 == <<"#", "#", " ">>
HASH3 == <<"#", "#", "#", " ">>
FENCE == <<BT, BT, BT>>
PIPE == <<"|">>

\* the keys of the metadata test
MetadataKeys ==
  { <<"A", "u", "t", "h", "o", "r">>, <<"S", "t", "a", "t", "u", "s">>,
    <<"C", "r", "e", "a", "t", "e", "d">>, <<"D", "a", "t", "e">>,
    <<"V", "e", "r", "s", "i", "o", "n">> }

\* the most elements already parsed for a line to be read as metadata
MetadataWindow == 2

\* the length of the leading run of digits of s
DigitRun(s) ==
  LET stop == {j \in 1..Len(s) : s[j] \notin Digits}
  IN  IF stop = {} THEN Len(s) ELSE SetMin(stop) - 1

\* re.match(r'^\d+\.\s', s)
NumberedPrefix(s) ==
  LET nd == DigitRun(s)
  IN  nd >= 1 /\ Len(s) >= nd + 2 /\ s[nd + 1] = "." /\ s[nd + 2] \in Whitespace

\* re.match(r'^(\d+)\.\s+(.+)$', s)
NumberedMatch(s) == NumberedPrefix(s) /\ LStrip(From(s, DigitRun(s) + 2)) # <<>>

NumberedNum(s) == ParseInt(SubSeq(s, 1, DigitRun(s)))
NumberedText(s) == LStrip(From(s, DigitRun(s) + 2))

IsBullet(s) == StartsWith(s, <<"-", " ">>) \/ StartsWith(s, <<"*", " ">>)

\* stripped.partition(':')
PartitionKey(s) == Strip(Split(s, ":")[1])
PartitionValue(s) == Strip(From(s, Len(Split(s, ":")[1]) + 2))

\* faulty variant: the metadata test without the count of elements
IsMetadata_NoWindow(s, els) ==
  /\ \E j \in 1..Len(s) : s[j] = ":"
  /\ PartitionKey(s) \in MetadataKeys

IsMetadata(s, els) ==
  /\ \E j \in 1..Len(s) : s[j] = ":"
  /\ Len(els) <= MetadataWindow
  /\ PartitionKey(s) \in MetadataKeys

\* which branch of the loop body takes the line, in the order of the code
LineKind(line, els) ==
  LET stripped == Strip(line)
  IN  IF stripped = <<>> THEN "empty"
      ELSE IF StartsWith(stripped, HASH1) /\ els = <<>> THEN "title"
      ELSE IF StartsWith(stripped, HASH3) THEN "h3"
      ELSE IF StartsWith(stripped, HASH2) THEN "h2"
      ELSE IF StartsWith(stripped, HASH1) THEN "h1"
      ELSE IF StartsWith(stripped, FENCE) THEN "fence"
      ELSE IF StartsWith(stripped, PIPE) THEN "table"
      ELSE IF IsBullet(stripped) THEN "bullet"
      ELSE IF NumberedMatch(stripped) THEN "numbered"
      ELSE IF IsMetadata(stripped, els) THEN "metadata"
      ELSE "paragraph"

\* faulty variant: only a heading marker with its space ends the paragraph
ParagraphBreak_HeadingsOnly(next_line) ==
  \/ next_line = <<>>
  \/ StartsWith(next_line, HASH1)
  \/ StartsWith(next_line, HASH2)
  \/ StartsWith(next_line, HASH3)
  \/ StartsWith(next_line, FENCE)
  \/ StartsWith(next_line, PIPE)
  \/ IsBullet(next_line)
  \/ NumberedPrefix(next_line)

\* the test that ends the paragraph's inner loop
ParagraphBreak(next_line) ==
  \/ next_line = <<>>
  \/ StartsWith(next_line, <<"#">>)
  \/ StartsWith(next_line, FENCE)
  \/ StartsWith(next_line, PIPE)
  \/ IsBullet(next_line)
  \/ NumberedPrefix(next_line)

\* the first index from n on where the code fence's inner loop stops
RECURSIVE FenceEnd(_, _)
FenceEnd(ls, n) ==
  IF n <= Len(ls) /\ ~StartsWith(Strip(ls[n]), FENCE) THEN FenceEnd(ls, n + 1) ELSE n

\* the first index from n on where the table's inner loop stops
RECURSIVE TableEnd(_, _)
TableEnd(ls, n) ==
  IF n <= Len(ls) /\ StartsWith(Strip(ls[n]), PIPE) THEN TableEnd(ls, n + 1) ELSE n

\* the first index from n on where the paragraph's inner loop stops
RECURSIVE ParagraphEnd(_, _)
ParagraphEnd(ls, n) ==
  IF n <= Len(ls) /\ ~ParagraphBreak(Strip(ls[n])) THEN ParagraphEnd(ls, n + 1) ELSE n

-----------------------------------------------------------------------------
(* The input texts.  A text is built from at most MaxBlocks blocks of one   *)
(* family, each block a line or a short run of lines, joined by newlines.  *)

MaxBlocks == 3

L_empty == <<>>
L_hashA == <<"#", " ", "A">>
L_hashB == <<" ", "#", " ", "B">>
L_h2 == <<"#", "#", " ", "C">>
L_h3 == <<"#", "#", "#", " ", "D">>
L_hashx == <<"#", "x">>
L_fence == <<BT, BT, BT>>
L_head == <<"|", " ", "a", " ", "|", "b", "|">>
L_sep == <<"|", "-", "|", ":", "-", "|">>
L_wide == <<"|", "1", "|", "2", "|", "3", "|">>
L_narrow == <<"|", "1", "|">>
L_open == <<"|", "z">>
L_bullet == <<" ", " ", "*", " ", "x">>
L_numbered == <<"0", "7", ".", " ", "x">>
L_author == <<"A", "u", "t", "h", "o", "r", ":", " ", "X">>
L_status == <<"S", "t", "a", "t", "u", "s", " ", ":", "Y">>
L_note == <<"N", ":", "z">>
L_text == <<"t">>

\* headings and metadata
HeadingBlocks ==
  { <<L_empty>>, <<L_hashA>>, <<L_hashB>>, <<L_h2>>, <<L_author>>, <<L_status>>,
    <<L_text>>, <<L_author, L_status>> }

\* paragraphs, list items and the lines that look like something else
ParagraphBlocks ==
  { <<L_empty>>, <<L_text>>, <<L_hashx>>, <<L_note>>, <<L_author>>, <<L_bullet>>,
    <<L_numbered>>, <<L_h3>> }

\* table rows
TableBlocks ==
  { <<L_empty>>, <<L_head>>, <<L_sep>>, <<L_wide>>, <<L_narrow>>, <<L_open>>,
    <<L_text>>, <<L_status>> }

\* fences: a fenced diagram, fenced code, a table with a row wider than its header
FenceBlocks ==
  { <<L_fence>>, <<L_sep>>, <<L_text>>, <<L_hashA>>, <<L_author>>,
    <<L_fence, L_sep, L_fence>>, <<L_fence, L_hashA, L_fence>>, <<L_head, L_wide>> }

Families == {HeadingBlocks, ParagraphBlocks, TableBlocks, FenceBlocks}

RECURSIVE Flatten(_)
Flatten(bs) == IF bs = <<>> THEN <<>> ELSE Head(bs) \o Flatten(Tail(bs))

\* the texts, as the character sequences convert_rfc_to_docx is given
Texts ==
  { Join(Flatten(bs), <<NL>>) :
      bs \in UNION { [1..n -> F] : n \in 0..MaxBlocks, F \in Families } }

\* the title argument of convert_rfc_to_docx
Titles == {None, <<>>, <<"T">>}

-----------------------------------------------------------------------------
(* parse_rfc_content                                                       *)

Init ==
  /\ \E text \in Texts : lines = Split(text, NL)
  /\ i = 1
  /\ elements = <<>>
  /\ pc = "parse"
  /\ k = 1
  /\ doc = <<>>
  /\ metadata_items = <<>>

stripped == Strip(lines[i])

Parsing(kind) == pc = "parse" /\ i <= Len(lines) /\ LineKind(lines[i], elements) = kind

Emit(element, next) ==
  /\ elements' = Append(elements, element)
  /\ i' = next
  /\ UNCHANGED <<lines, pc, k, doc, metadata_items>>

SkipEmpty ==
  /\ Parsing("empty")
  /\ i' = i + 1
  /\ UNCHANGED <<lines, elements, pc, k, doc, metadata_items>>

ParseTitle == Parsing("title") /\ Emit(<<"title", Strip(From(stripped, 3))>>, i + 1)

ParseHeading ==
  \E h \in {"h1", "h2", "h3"} :
    /\ Parsing(h)
    /\ Emit(<<h, Strip(From(stripped, CASE h = "h3" -> 5 [] h = "h2" -> 4 [] h = "h1" -> 3))>>,
            i + 1)

\* the element of a fenced block
FencedElement(code_content) ==
  <<IF is_ascii_diagram(code_content) THEN "diagram" ELSE "code", code_content>>

ParseCodeBlock ==
  /\ Parsing("fence")
  /\ LET stop == FenceEnd(lines, i + 1)
         code_content == Join(SubSeq(lines, i + 1, stop - 1), <<NL>>)
     IN  Emit(FencedElement(code_content), stop + 1)

ParseTable ==
  /\ Parsing("table")
  /\ LET stop == TableEnd(lines, i)
         table == parse_markdown_table(SubSeq(lines, i, stop - 1))
     IN  IF table[1] # <<>>
         THEN Emit(<<"table", table>>, stop)
         ELSE /\ i' = stop
              /\ UNCHANGED <<lines, elements, pc, k, doc, metadata_items>>

ParseBullet ==
  /\ Parsing("bullet")
  /\ Emit(<<"bullet", <<Strip(From(stripped, 3)),
                        (Len(lines[i]) - Len(LStrip(lines[i]))) \div 2>>>>, i + 1)

ParseNumbered ==
  /\ Parsing("numbered")
  /\ Emit(<<"numbered", <<NumberedText(stripped), NumberedNum(stripped)>>>>, i + 1)

\* faulty variant: the metadata branch without its i += 1
ParseMetadata_NoAdvance ==
  /\ Parsing("metadata")
  /\ Emit(<<"metadata", <<PartitionKey(stripped), PartitionValue(stripped)>>>>, i)

ParseMetadata ==
  /\ Parsing("metadata")
  /\ Emit(<<"metadata", <<PartitionKey(stripped), PartitionValue(stripped)>>>>, i + 1)

ParseParagraph ==
  /\ Parsing("paragraph")
  /\ LET stop == ParagraphEnd(lines, i + 1)
         para_lines == [j \in 1..(stop - i) |-> Strip(lines[i + j - 1])]
     IN  Emit(<<"paragraph", Join(para_lines, <<" ">>)>>, stop)

\* the while loop ends; convert_rfc_to_docx starts its for loop
ParseReturn ==
  /\ pc = "parse"
  /\ i > Len(lines)
  /\ pc' = "render"
  /\ UNCHANGED <<lines, i, elements, k, doc, metadata_items>>

-----------------------------------------------------------------------------
(* convert_rfc_to_docx.  The document is the sequence of the block-level   *)
(* constructs appended to it.                                              *)

Construct(kind, text, n, runs, grid) ==
  [kind |-> kind, text |-> text, n |-> n, runs |-> runs, grid |-> grid]

Heading(text, level) == Construct("heading", text, level, <<>>, <<>>)
Paragraph(text) == Construct("paragraph", text, 0, <<>>, <<>>)
EmptyParagraph == Construct("empty", <<>>, 0, <<>>, <<>>)
BulletPoint(text, level) == Construct("bullet", text, level, <<>>, <<>>)
CodeBlock(code) == Construct("code", code, 0, <<>>, <<>>)
Picture(diagram_text) == Construct("picture", diagram_text, 0, <<>>, <<>>)

\* the paragraph of the metadata flush: two runs for each (key, value)
RECURSIVE MetaRuns(_)
MetaRuns(items) ==
  IF items = <<>> THEN <<>>
  ELSE <<items[1][1] \o <<":", " ">>, items[1][2] \o <<NL>>>> \o MetaRuns(Tail(items))

MetaParagraph(items) == Construct("meta", <<>>, 0, MetaRuns(items), <<>>)

\* add_numbered_item: a paragraph of f"{number}. {text}"
NumberedItem(text, number) == Paragraph(FormatInt(number) \o <<".", " ">> \o text)

\* add_table: the rows whose data has more cells than the table has columns
TooWide(headers, rows) == {r \in 1..Len(rows) : Len(rows[r]) > Len(headers)}

\* add_table: whether row_cells[col_idx] is indexed out of range (IndexError)
add_table_raises(headers, rows) == TooWide(headers, rows) # {}

\* add_table: the grid of cell texts when add_table returns or raises
add_table_grid(headers, rows) ==
  LET cols == Len(headers)
      last == IF add_table_raises(headers, rows)
              THEN SetMin(TooWide(headers, rows)) ELSE Len(rows)
  IN  [r \in 1..(1 + Len(rows)) |->
         [c \in 1..cols |->
            IF r = 1 THEN headers[c]
            ELSE IF r - 1 <= last /\ c <= Len(rows[r - 1]) THEN rows[r - 1][c]
            ELSE <<>>]]

Table(headers, rows) == Construct("table", <<>>, 0, <<>>, add_table_grid(headers, rows))

\* what the diagram's try block can do
DiagramOutcomes == {"ok", "rasterizer_raises", "add_picture_raises"}

elem_type == elements[k][1]
content == elements[k][2]

Rendering(type) == pc = "render" /\ k <= Len(elements) /\ elem_type = type

Append1(construct) ==
  /\ doc' = Append(doc, construct)
  /\ k' = k + 1
  /\ UNCHANGED <<lines, i, elements, pc, metadata_items>>

\* faulty variant: the title added as a level-1 heading
RenderTitle_Level1 ==
  /\ Rendering("title")
  /\ \E title \in Titles :
       Append1(Heading(IF title # None /\ title # <<>> THEN title ELSE content, 1))

RenderTitle ==
  /\ Rendering("title")
  /\ \E title \in Titles :
       Append1(Heading(IF title # None /\ title # <<>> THEN title ELSE content, 0))

RenderMetadata ==
  /\ Rendering("metadata")
  /\ metadata_items' = Append(metadata_items, content)
  /\ k' = k + 1
  /\ UNCHANGED <<lines, i, elements, pc, doc>>

\* faulty variant: the flush before a level-1 heading without metadata_items = []
RenderH1_NoClear ==
  /\ Rendering("h1")
  /\ IF metadata_items # <<>>
     THEN doc' = doc \o <<MetaParagraph(metadata_items), EmptyParagraph, Heading(content, 1)>>
     ELSE doc' = Append(doc, Heading(content, 1))
  /\ k' = k + 1
  /\ UNCHANGED <<lines, i, elements, pc, metadata_items>>

RenderH1 ==
  /\ Rendering("h1")
  /\ IF metadata_items # <<>>
     THEN /\ doc' = doc \o <<MetaParagraph(metadata_items), EmptyParagraph, Heading(content, 1)>>
          /\ metadata_items' = <<>>
     ELSE /\ doc' = Append(doc, Heading(content, 1))
          /\ UNCHANGED metadata_items
  /\ k' = k + 1
  /\ UNCHANGED <<lines, i, elements, pc>>

RenderH2 == Rendering("h2") /\ Append1(Heading(content, 2))

RenderH3 == Rendering("h3") /\ Append1(Heading(content, 3))

RenderParagraph == Rendering("paragraph") /\ Append1(Paragraph(content))

RenderBullet == Rendering("bullet") /\ Append1(BulletPoint(content[1], content[2]))

RenderNumbered == Rendering("numbered") /\ Append1(NumberedItem(content[1], content[2]))

RenderCode == Rendering("code") /\ Append1(CodeBlock(content))

\* the try block and its except branch.  python-docx's add_picture appends
\* the paragraph that is to hold the picture before it reads the image.
DiagramResult(outcome, diagram_text) ==
  CASE outcome = "ok" -> <<Picture(diagram_text)>>
    [] outcome = "rasterizer_raises" -> <<CodeBlock(diagram_text)>>
    [] outcome = "add_picture_raises" -> <<EmptyParagraph, CodeBlock(diagram_text)>>

RenderDiagram ==
  /\ Rendering("diagram")
  /\ \E outcome \in DiagramOutcomes :
       doc' = doc \o DiagramResult(outcome, content)
  /\ k' = k + 1
  /\ UNCHANGED <<lines, i, elements, pc, metadata_items>>

RenderTable ==
  /\ Rendering("table")
  /\ IF add_table_raises(content[1], content[2])
     THEN /\ doc' = Append(doc, Table(content[1], content[2]))
          /\ pc' = "raised"
          /\ UNCHANGED k
     ELSE /\ doc' = doc \o <<Table(content[1], content[2]), EmptyParagraph>>
          /\ k' = k + 1
          /\ UNCHANGED pc
  /\ UNCHANGED <<lines, i, elements, metadata_items>>

\* the flush after the loop, and doc.save
Save ==
  /\ pc = "render"
  /\ k > Len(elements)
  /\ doc' = IF metadata_items # <<>> THEN Append(doc, MetaParagraph(metadata_items)) ELSE doc
  /\ pc' = "saved"
  /\ UNCHANGED <<lines, i, elements, k, metadata_items>>

Next ==
  \/ SkipEmpty
  \/ ParseTitle
  \/ ParseHeading
  \/ ParseCodeBlock
  \/ ParseTable
  \/ ParseBullet
  \/ ParseNumbered
  \/ ParseMetadata
  \/ ParseParagraph
  \/ ParseReturn
  \/ RenderTitle
  \/ RenderMetadata
  \/ RenderH1
  \/ RenderH2
  \/ RenderH3
  \/ RenderParagraph
  \/ RenderBullet
  \/ RenderNumbered
  \/ RenderCode
  \/ RenderDiagram
  \/ RenderTable
  \/ Save

Spec == Init /\ [][Next]_vars

-----------------------------------------------------------------------------
(* The classification of a fenced block on its own, over block bodies      *)
(* built from at most MaxSegments segments.                                *)

MaxSegments == 3

A16 == [j \in 1..16 |-> "a"]

Segments ==
  { <<"a">>, A16, <<"<", "/", ">">>, <<"+", "-", "|">>, <<"+">>, <<"-">>, <<"v">>,
    <<"[", "a", "]", "[", "a", "]">>, <<"[", "a", "]", NL, "[", "a", "]">>,
    <<BH>>, <<BV>>, <<DH>>, <<" ">>, <<NL>>, <<TAB>> }

Bodies == { Flatten(segs) : segs \in UNION { [1..n -> Segments] : n \in 0..MaxSegments } }

InitDiagram ==
  /\ \E body \in Bodies : lines = <<L_fence>> \o Split(body, NL) \o <<L_fence>>
  /\ i = 1
  /\ elements = <<>>
  /\ pc = "parse"
  /\ k = 1
  /\ doc = <<>>
  /\ metadata_items = <<>>

\* the text starts with a fence: the one trip round the loop that reads the block
NextDiagram == ParseCodeBlock

SpecDiagram == InitDiagram /\ [][NextDiagram]_vars

-----------------------------------------------------------------------------
(* Properties.  The definitions below restate the specification's words;   *)
(* they do not use the operators that model the code's loops.              *)

IsPrefix(s, t) == Len(s) <= Len(t) /\ SubSeq(t, 1, Len(s)) = s

Last(s) == s[Len(s)]

\* the indices of S in increasing order
RECURSIVE Sorted(_)
Sorted(S) == IF S = {} THEN <<>> ELSE <<SetMin(S)>> \o Sorted(S \ {SetMin(S)})

Trimmed(j) == Strip(lines[j])

IsFenceLine(j) == StartsWith(Trimmed(j), FENCE)

\* line j is not inside a fenced block and is not a fence: an even number of
\* fence lines comes before it
OutsideFence(j) ==
  /\ ~IsFenceLine(j)
  /\ Cardinality({f \in 1..(j - 1) : IsFenceLine(f)}) % 2 = 0

\* ---- C1 ----
\* C1: convert_rfc_to_docx never raises, whatever the text; a table whose
\* rows have more or fewer cells than its header is still rendered.
C1_NeverRaises == pc # "raised"

\* ---- C4 ----
\* C4: parse_rfc_content terminates: every trip round its loop moves the
\* cursor forward (also for an unterminated fence, a table without a header
\* and a '#' line that is no heading) and adds at most one element, so the
\* elements are never more than the lines read, nor more than the lines; the
\* table branch, the one that may add nothing, reads at least one line.
C4_ParseTerminates ==
  /\ [][pc = "parse" =>
          /\ (i' > i \/ (i > Len(lines) /\ pc' = "render"))
          /\ Len(elements') <= Len(elements) + 1]_vars
  /\ [](Len(elements) <= i - 1 /\ Len(elements) <= Len(lines))
  /\ [](pc = "parse" /\ i <= Len(lines) /\ StartsWith(Strip(lines[i]), PIPE) =>
          TableEnd(lines, i) > i)

\* an unterminated fence was read to the end of the text, and the parser returned
C4_Witness ==
  /\ pc = "render"
  /\ i = Len(lines) + 2
  /\ Len(lines) >= 3
  /\ Cardinality({j \in 1..Len(lines) : IsFenceLine(j)}) = 1

\* ---- C6 ----
\* the cells of a table line: the trimmed texts between two neighbouring pipes
PipeAt(s) == Sorted({j \in 1..Len(s) : s[j] = "|"})

TrimmedCells(s) ==
  [c \in 1..(Len(PipeAt(s)) - 1) |-> Strip(SubSeq(s, PipeAt(s)[c] + 1, PipeAt(s)[c + 1] - 1))]

\* re ^[-:]+$
DashesAndColons(cell) == Len(cell) >= 1 /\ {cell[j] : j \in 1..Len(cell)} \subseteq {"-", ":"}

SeparatorRow(cells) == \A c \in 1..Len(cells) : DashesAndColons(cells[c])

IsPipeLine(j) == j \in 1..Len(lines) /\ StartsWith(Trimmed(j), PIPE)

\* the last line of the run of '|' lines that starts at line a
RegionLast(a) == SetMin({b \in a..Len(lines) : ~IsPipeLine(b + 1)})

\* the rows of the region a..b that are not separator rows, in input order
RegionRows(a, b) ==
  LET keep == Sorted({j \in a..b : ~SeparatorRow(TrimmedCells(Trimmed(j)))})
  IN  [r \in 1..Len(keep) |-> TrimmedCells(Trimmed(keep[r]))]

\* C6: when the parser stands on a '|' line, the run of '|' lines from there
\* is a whole region (the line before is no '|' line the parser has not
\* consumed); its first non-separator row becomes the headers, the other
\* non-separator rows the rows, in input order; a region of separator rows
\* only gives no element.
C6_TableParsed ==
  [][(pc = "parse" /\ IsPipeLine(i)) =>
       LET b == RegionLast(i)
           rs == RegionRows(i, b)
       IN  /\ i' = b + 1
           /\ IF rs = <<>> THEN elements' = elements
              ELSE /\ Len(elements') = Len(elements) + 1
                   /\ SubSeq(elements', 1, Len(elements)) = elements
                   /\ Last(elements')[1] = "table"
                   /\ Last(elements')[2] = <<rs[1], Tail(rs)>>]_vars

\* a table was parsed from a header, a separator row and a data row
C6_Witness ==
  /\ pc = "render"
  /\ lines = <<L_head, L_sep, L_wide>>
  /\ Len(elements) = 1
  /\ elements[1][1] = "table"
  /\ elements[1][2] = << <<<<"a">>, <<"b">>>>, << <<<<"1">>, <<"2">>, <<"3">>>> >> >>

\* ---- C7 ----
Run3(text, S) == \E j \in 1..(Len(text) - 2) : SubSeq(text, j, j + 2) \in [1..3 -> S]

\* two bracketed words on one line
TwoBrackets(line) ==
  LET opening == {j \in 1..Len(line) : line[j] = "["}
      closing == {j \in 1..Len(line) : line[j] = "]"}
  IN  \E a \in opening, b \in closing, c \in opening, d \in closing :
         a < b /\ b < c /\ c < d

\* the listed patterns
ListedPattern(text) ==
  \/ Run3(text, {"+", "-", "|"})
  \/ {text[j] : j \in 1..Len(text)} \cap {BH, BV} # {}
  \/ \E n \in 1..Len(Split(text, NL)) : TwoBrackets(Split(text, NL)[n])
  \/ Run3(text, {BH})
  \/ \E a, b \in 1..Len(text) :
        a < b /\ text[a] = BV /\ text[b] = BV
        /\ \A j \in (a + 1)..(b - 1) : text[j] \in Whitespace

DiagramIsh(text) == Cardinality({j \in 1..Len(text) : text[j] \in DensityChars})

NonWhitespace(text) == Cardinality({j \in 1..Len(text) : text[j] \notin Whitespace})

NotSpaceOrNewline(text) == Cardinality({j \in 1..Len(text) : ~(text[j] = " " \/ text[j] = NL)})

\* count / total > 0.15
RatioAbove(count, total) == total > 0 /\ 100 * count > 15 * total

Fenced == {n \in 1..Len(elements) : elements[n][1] \in {"diagram", "code"}}

\* C7 as stated: a fenced block is a Diagram exactly when a listed pattern
\* matches or diagram-ish / non-whitespace characters > 0.15.
C7_Original ==
  \A n \in Fenced :
     elements[n][1] = "diagram" <=>
       \/ ListedPattern(elements[n][2])
       \/ RatioAbove(DiagramIsh(elements[n][2]), NonWhitespace(elements[n][2]))

\* C7 (amended): a fenced block is a Diagram exactly when a listed pattern
\* matches or the ratio of diagram-ish characters to the characters other
\* than spaces and newlines (tabs count) is > 0.15; a body without a
\* non-whitespace character is a CodeBlock.
C7_Classification ==
  \A n \in Fenced :
     /\ elements[n][1] = "diagram" <=>
          \/ ListedPattern(elements[n][2])
          \/ RatioAbove(DiagramIsh(elements[n][2]), NotSpaceOrNewline(elements[n][2]))
     /\ NonWhitespace(elements[n][2]) = 0 => elements[n][1] = "code"

\* a block with a tab is code at 3/20, where the ratio to its non-whitespace
\* characters alone (3/19) is above 0.15
C7_Witness ==
  /\ Len(elements) = 1
  /\ elements[1][1] = "code"
  /\ DiagramIsh(elements[1][2]) = 3
  /\ NotSpaceOrNewline(elements[1][2]) = 20
  /\ NonWhitespace(elements[1][2]) = 19

-----------------------------------------------------------------------------
(* The document and the elements, as the claims about rendering read them. *)

IndicesOf(seq, Test(_)) == Sorted({n \in 1..Len(seq) : Test(seq[n])})

IsMeta(c) == c.kind = "meta"
IsLevel1(c) == c.kind = "heading" /\ c.n = 1
IsH1(e) == e[1] = "h1"
IsMetadataElement(e) == e[1] = "metadata"

\* the runs written for (key, value) pairs: "key: " and "value\n" for each
PairRuns(pairs) ==
  [r \in 1..(2 * Len(pairs)) |->
     IF r % 2 = 1 THEN pairs[(r + 1) \div 2][1] \o <<":", " ">>
     ELSE pairs[r \div 2][2] \o <<NL>>]

\* the runs of all metadata paragraphs of a document, in document order
RECURSIVE AllMetaRuns(_)
AllMetaRuns(d) ==
  IF d = <<>> THEN <<>>
  ELSE (IF IsMeta(d[1]) THEN d[1].runs ELSE <<>>) \o AllMetaRuns(Tail(d))

\* the (key, value) of the Metadata elements strictly between positions a and b
MetaBetween(a, b) ==
  LET at == Sorted({n \in (a + 1)..(b - 1) : IsMetadataElement(elements[n])})
  IN  [r \in 1..Len(at) |-> elements[at[r]][2]]

H1Elements == IndicesOf(elements, IsH1)
DocLevel1 == IndicesOf(doc, IsLevel1)

\* the position of the level-1 heading element before the n-th one (0: none)
PrevH1(n) == IF n = 1 THEN 0 ELSE H1Elements[n - 1]
LastH1 == IF H1Elements = <<>> THEN 0 ELSE Last(H1Elements)

\* a 'Key: value' line with a recognised key
FirstColon(s) == SetMin({j \in 1..Len(s) : s[j] = ":"})
KeyOf(s) == Strip(SubSeq(s, 1, FirstColon(s) - 1))
ValueOf(s) == Strip(SubSeq(s, FirstColon(s) + 1, Len(s)))
MetaForm(s) == (\E j \in 1..Len(s) : s[j] = ":") /\ KeyOf(s) \in MetadataKeys

IsHeadingLine(j) ==
  /\ OutsideFence(j)
  /\ (StartsWith(Trimmed(j), HASH1) \/ StartsWith(Trimmed(j), HASH2)
        \/ StartsWith(Trimmed(j), HASH3))

FirstHeadingLine ==
  SetMin({j \in 1..(Len(lines) + 1) : j = Len(lines) + 1 \/ IsHeadingLine(j)})

\* the pairs of the 'Key: value' lines before the first heading
PairsBeforeHeading ==
  LET at == Sorted({j \in 1..(FirstHeadingLine - 1) :
                      OutsideFence(j) /\ MetaForm(Trimmed(j))})
  IN  [r \in 1..Len(at) |-> <<KeyOf(Trimmed(at[r])), ValueOf(Trimmed(at[r]))>>]

\* ---- C2 ----
\* C2 as stated: every 'Key: value' line before the first heading is in the
\* one metadata block that stands immediately before the first level-1
\* heading (at the end of the document when there is none), in input order.
C2_Original ==
  (pc = "saved" /\ PairsBeforeHeading # <<>>) =>
     \E n \in 1..Len(doc) :
        /\ IsMeta(doc[n])
        /\ IsPrefix(PairRuns(PairsBeforeHeading), doc[n].runs)
        /\ IF DocLevel1 = <<>> THEN n = Len(doc) ELSE n + 2 = DocLevel1[1]

\* the metadata blocks of a saved document stand where the pairs between two
\* level-1 headings put them
MetadataPlacement ==
  /\ Len(DocLevel1) = Len(H1Elements)
  /\ \A n \in 1..Len(H1Elements) :
        LET g == MetaBetween(PrevH1(n), H1Elements[n])
            d == DocLevel1[n]
        IN  IF g # <<>>
            THEN /\ d >= 3
                 /\ IsMeta(doc[d - 2])
                 /\ doc[d - 2].runs = PairRuns(g)
                 /\ doc[d - 1].kind = "empty"
            ELSE d >= 3 => ~IsMeta(doc[d - 2])
  /\ LET g == MetaBetween(LastH1, Len(elements) + 1)
     IN  IF g # <<>>
         THEN IsMeta(Last(doc)) /\ Last(doc).runs = PairRuns(g)
         ELSE doc # <<>> => ~IsMeta(Last(doc))
  /\ \A n \in 1..Len(doc) :
        IsMeta(doc[n]) => (n = Len(doc) \/ (n + 2 <= Len(doc) /\ IsLevel1(doc[n + 2])))

\* C2 (amended): a 'Key: value' line with a recognised key that the parser
\* reaches as the start of an element is buffered as metadata when at most
\* two elements have been emitted, and starts a paragraph otherwise; the
\* buffered pairs are written as one block immediately before the next
\* level-1 heading, in input order, and those with no later level-1 heading
\* as one block at the end of the document.
C2_MetadataBuffered ==
  /\ [][(pc = "parse" /\ i <= Len(lines) /\ MetaForm(Trimmed(i))) =>
          /\ Len(elements') = Len(elements) + 1
          /\ IF Len(elements) <= 2
             THEN /\ Last(elements')[1] = "metadata"
                  /\ Last(elements')[2] = <<KeyOf(Trimmed(i)), ValueOf(Trimmed(i))>>
                  /\ i' = i + 1
             ELSE /\ Last(elements')[1] = "paragraph"
                  /\ IsPrefix(Trimmed(i), Last(elements')[2])]_vars
  /\ [](pc = "saved" => MetadataPlacement)

\* three pairs were written before the level-1 heading; the fourth
\* 'Key: value' line is a paragraph
C2_Witness ==
  /\ pc = "saved"
  /\ lines = <<L_author, L_status, L_author, L_status, L_hashA>>
  /\ Len(doc) = 4
  /\ doc[1] = Paragraph(Strip(L_status))
  /\ IsMeta(doc[2]) /\ Len(doc[2].runs) = 6
  /\ IsLevel1(doc[4])

\* ---- C10 ----
\* C10 as stated: every Metadata pair is written exactly once, in the order
\* parsed, and the buffer is empty when the document is saved.
C10_Original ==
  pc = "saved" =>
     /\ AllMetaRuns(doc) = PairRuns(MetaBetween(0, Len(elements) + 1))
     /\ metadata_items = <<>>

\* C10 (amended): at every point of the rendering the pairs written to the
\* document followed by the pairs in the buffer are the Metadata pairs
\* rendered so far, each once and in the order parsed; in a saved document
\* every pair is written exactly once; the level-1-heading flush empties the
\* buffer, the end-of-document flush does not: at the save the buffer holds
\* the pairs that follow the last level-1 heading.
C10_MetadataOnce ==
  /\ pc # "saved" =>
       AllMetaRuns(doc) \o PairRuns(metadata_items) = PairRuns(MetaBetween(0, k))
  /\ pc = "saved" =>
       /\ AllMetaRuns(doc) = PairRuns(MetaBetween(0, Len(elements) + 1))
       /\ metadata_items = MetaBetween(LastH1, Len(elements) + 1)

\* both flushes ran: one block before the level-1 heading, one at the end
C10_Witness ==
  /\ pc = "saved"
  /\ Cardinality({n \in 1..Len(doc) : IsMeta(doc[n])}) = 2
  /\ metadata_items # <<>>

\* ---- C5 ----
IsTopHash(j) == OutsideFence(j) /\ StartsWith(Trimmed(j), HASH1)

HashText(j) == Strip(SubSeq(Trimmed(j), 3, Len(Trimmed(j))))

\* a '# ' line before which nothing gave an element: only blank lines and
\* table lines that are separator rows
IsTitleLine(j) ==
  /\ IsTopHash(j)
  /\ \A b \in 1..(j - 1) :
        \/ Trimmed(b) = <<>>
        \/ IsPipeLine(b) /\ SeparatorRow(TrimmedCells(Trimmed(b)))

TextsAt(at) == [r \in 1..Len(at) |-> HashText(at[r])]

DocLevel1Texts == [r \in 1..Len(DocLevel1) |-> doc[DocLevel1[r]].text]

\* C5 as stated: the level-1 headings of the document are the '# ' lines.
C5_Original ==
  pc = "saved" =>
     DocLevel1Texts = TextsAt(Sorted({j \in 1..Len(lines) : IsTopHash(j)}))

\* C5 (amended): the level-1 headings of the document are, in input order,
\* the '# ' lines outside fenced blocks other than the line emitted as the
\* Title (a '# ' line before which no element was emitted); while rendering,
\* the headings written are the first of them.
C5_HeadingsKept ==
  LET expected == TextsAt(Sorted({j \in 1..Len(lines) : IsTopHash(j) /\ ~IsTitleLine(j)}))
  IN  /\ IsPrefix(DocLevel1Texts, expected)
      /\ pc = "saved" => DocLevel1Texts = expected

\* a title and two level-1 headings with different texts
C5_Witness ==
  /\ pc = "saved"
  /\ lines = <<L_hashA, L_hashB, L_hashA>>
  /\ DocLevel1Texts = << <<"B">>, <<"A">> >>
  /\ doc[1].kind = "heading" /\ doc[1].n = 0

-----------------------------------------------------------------------------
\* ---- C8 ----
\* digits, a dot and a whitespace character at the start of s
StartsNumbered(s) ==
  \E d \in 1..(Len(s) - 2) :
     /\ \A j \in 1..d : s[j] \in Digits
     /\ s[d + 1] = "."
     /\ s[d + 2] \in Whitespace

\* a numbered item: digits, a dot, whitespace and a text
IsNumberedItem(s) == StartsNumbered(s) /\ s[Len(s)] \notin Whitespace

StartsBullet(s) == Len(s) >= 2 /\ s[1] \in {"-", "*"} /\ s[2] = " "

\* rules 2-7: a title or heading, a fence, a table row, a bullet, a numbered item
Rules2To7(s) ==
  \/ StartsWith(s, HASH1) \/ StartsWith(s, HASH2) \/ StartsWith(s, HASH3)
  \/ StartsWith(s, FENCE)
  \/ StartsWith(s, PIPE)
  \/ StartsBullet(s)
  \/ IsNumberedItem(s)

\* what ends a paragraph in the code: any line that starts with '#'
EndsParagraph(s) ==
  \/ (s # <<>> /\ s[1] \in {"#", "|"})
  \/ StartsWith(s, FENCE)
  \/ StartsBullet(s)
  \/ StartsNumbered(s)

\* the step appends a Paragraph element
ParagraphParsed ==
  pc = "parse" /\ Len(elements') = Len(elements) + 1 /\ Last(elements')[1] = "paragraph"

\* the paragraph that starts at line i runs to the line before the first
\* blank line or line that Ends(_) it, its trimmed lines joined by spaces
AbsorbsUntil(Ends(_)) ==
  LET m == SetMin({n \in (i + 1)..(Len(lines) + 1) :
                     n = Len(lines) + 1 \/ Trimmed(n) = <<>> \/ Ends(Trimmed(n))})
  IN  /\ i' = m
      /\ Last(elements')[2] = Join([j \in 1..(m - i) |-> Trimmed(i + j - 1)], <<" ">>)

\* C8 as stated: a started paragraph absorbs every following non-blank line
\* that rules 2-7 do not classify; a '#' line that is no heading and a
\* 'Key: value' line do not end it.
C8_Original == [][ParagraphParsed => AbsorbsUntil(Rules2To7)]_vars

\* C8 (amended): a started paragraph absorbs every following non-blank line
\* up to the first line that starts with '#' (a heading or not), with a
\* fence, with '|', with '- ' or '* ', or with digits, a dot and whitespace;
\* a 'Key: value' line does not end it.
C8_ParagraphAbsorbs == [][ParagraphParsed => AbsorbsUntil(EndsParagraph)]_vars

\* a 'Key: value' line was absorbed into the paragraph before it
C8_Witness ==
  /\ pc = "render"
  /\ lines = <<L_text, L_author, L_hashx>>
  /\ Len(elements) = 2
  /\ elements[1][1] = "paragraph"
  /\ elements[1][2] = L_text \o <<" ">> \o L_author
  /\ elements[2][1] = "paragraph"
  /\ elements[2][2] = L_hashx

\* ---- C9 ----
Titles9 == {n \in 1..Len(elements) : elements[n][1] = "title"}

\* C9: a Title is emitted only for a '# ' line that is the first non-blank
\* line of the text; there is at most one Title and it is the first element.
C9_TitleFirstLine ==
  /\ [][(pc = "parse" /\ Len(elements') = Len(elements) + 1
           /\ Last(elements')[1] = "title") =>
          \A j \in 1..(i - 1) : Trimmed(j) = <<>>]_vars
  /\ [](Titles9 \subseteq {1})

\* ---- C3 ----
\* a code block of a text that is a diagram: the fallback of a failed diagram
FailedDiagrams == {n \in 1..Len(doc) : doc[n].kind = "code" /\ is_ascii_diagram(doc[n].text)}

\* C3: when the rasterizer or the insertion of the image fails, the document
\* gets a code block of the diagram's text in the diagram's place, the
\* failure goes no further, and every later element is rendered and the
\* document saved: the conversion does not end in an exception.
C3_DiagramFallback ==
  /\ [][(pc = "render" /\ k <= Len(elements) /\ elements[k][1] = "diagram"
           /\ Last(doc').kind # "picture") =>
          /\ IsPrefix(doc, doc')
          /\ Last(doc').kind = "code"
          /\ Last(doc').text = elements[k][2]
          /\ pc' = "render"
          /\ k' = k + 1]_vars
  /\ [](FailedDiagrams # {} => pc # "raised")

=============================================================================
